---- MODULE Spec2Model ----
(***************************************************************************)
(* A model of src/jupiter.py: get_top_tokens (four paged requests with the *)
(* stablecoin filter), calculate_potential_gains, and the body of main()   *)
(* behind the 'Show Results' button: the per-token loop with the threshold *)
(* filter, the three top-30 rankings, the 1000x display cap and the two    *)
(* consensus sets with the messages written for them.                      *)
(*                                                                         *)
(* Representation.  A string is a sequence of one-character strings, so    *)
(* that str.upper() and string concatenation are computed.  A Python value *)
(* that may be None is a set: None is {} and a value v is {v}.  A dict is a *)
(* record; a key that is absent is absent from its DOMAIN.  A float that   *)
(* results from a true division is the exact fraction <<num, den>> in      *)
(* lowest terms (den > 0).  Charts (matplotlib) are not modelled.          *)
(***************************************************************************)
EXTENDS Integers, Sequences, FiniteSets, TLC

VARIABLES
    market_cap_min,       \* slider value, line 50
    market_cap_max,       \* slider value, line 51
    volume_min,           \* slider value, line 52
    pc,                   \* position in main() / get_top_tokens()
    page,                 \* get_top_tokens: the loop variable of line 9
    responses,            \* get_top_tokens: the responses received so far, each with the
                          \* page it was requested for, in request order
    tokens,               \* get_top_tokens: the accumulator of line 8
    top_tokens,           \* main: line 58
    i,                    \* main: position of the loop of line 67 in top_tokens
    results,              \* main: line 64
    exc,                  \* the exception that left main(), "" when none
    df,                   \* main: line 95 (with the Token column of line 102)
    df_sorted,            \* main: line 106, 107
    df_sorted_7d,         \* main: line 119
    df_sorted_mc_vol,     \* main: line 131
    tokens_in_all_plots,  \* main: line 142
    tokens_in_two_plots,  \* main: line 152
    out                   \* what st.write / st.error have written, in order

vars == <<market_cap_min, market_cap_max, volume_min, pc, page, responses, tokens,
          top_tokens, i, results, exc, df, df_sorted, df_sorted_7d, df_sorted_mc_vol,
          tokens_in_all_plots, tokens_in_two_plots, out>>

(***************************************************************************)
(* Bounds of the model and constants of the program.                       *)
(***************************************************************************)
MaxEntries == 2     \* raw entries received over the four pages of one run
MaxRows == 32       \* tokens in a generated token list (above TopK)
PermRows == 3       \* up to this many rows every tie order of a sort is explored

FirstPage == 1      \* range(1, 5)
LastPage == 4       \* range(1, 5)
TopK == 30          \* .head(30)
GainCap == 1000     \* min(x, 1000)

(***************************************************************************)
(* Python values.                                                          *)
(***************************************************************************)
None == {}
Some(v) == {v}
Val(x) == CHOOSE v \in x : TRUE

Min(a, b) == IF a <= b THEN a ELSE b

RECURSIVE GCD(_, _)
GCD(a, b) == IF b = 0 THEN a ELSE GCD(b, a % b)

\* a / b of Python for integers a >= 0, b > 0: the exact quotient
TrueDiv(a, b) == LET g == GCD(a, b) IN <<a \div g, b \div g>>
FracOfInt(n) == <<n, 1>>
FracLess(x, y) == x[1] * y[2] < y[1] * x[2]
\* min(x, cap) of Python: the first argument unless the second is smaller
FracMin(x, cap) == IF FracLess(FracOfInt(cap), x) THEN FracOfInt(cap) ELSE x

\* str.upper() on the characters the model uses
UpperChar(c) ==
    CASE c = "a" -> "A" [] c = "b" -> "B" [] c = "c" -> "C" [] c = "d" -> "D"
      [] c = "e" -> "E" [] c = "h" -> "H" [] c = "i" -> "I" [] c = "k" -> "K"
      [] c = "s" -> "S" [] c = "t" -> "T" [] c = "u" -> "U" [] c = "x" -> "X"
      [] OTHER -> c
Upper(s) == [k \in 1..Len(s) |-> UpperChar(s[k])]

(***************************************************************************)
(* get_top_tokens.                                                         *)
(***************************************************************************)
\* line 28
stablecoins == << <<"u","s","d","t">>, <<"u","s","d","c">>, <<"d","a","i">>,
                  <<"b","u","s","d">>, <<"u","s","t">> >>

\* x in list: some element equals x
InList(x, list) == \E k \in 1..Len(list) : list[k] = x

\* the condition of line 31
KeepToken(token) ==
    /\ token.isdict
    /\ "symbol" \in DOMAIN token.d
    /\ ~(token.d.symbol # None /\ InList(Val(token.d.symbol), stablecoins))

\* the comprehension of lines 29-32
FilteredTokens(page_tokens) == SelectSeq(page_tokens, KeepToken)

\* get_top_tokens, one pass of the loop of lines 9-34 for a response that parses
FetchPage(resp) ==
    /\ pc = "fetch"
    /\ page <= LastPage
    /\ resp.ok
    /\ responses' = Append(responses, [page |-> page, ok |-> TRUE, body |-> resp.body])
    /\ tokens' = tokens \o FilteredTokens(resp.body)
    /\ page' = page + 1
    /\ UNCHANGED <<market_cap_min, market_cap_max, volume_min, pc, top_tokens, i, results,
                   exc, df, df_sorted, df_sorted_7d, df_sorted_mc_vol,
                   tokens_in_all_plots, tokens_in_two_plots, out>>

\* variant, for mutation analysis: a parse failure returns what was accumulated
ReturnAccumulated(acc) == acc

\* what get_top_tokens returns when response.json() raises ValueError, line 25
ReturnOnParseFailure(acc) == << >>

\* get_top_tokens, lines 18-25 for a response that does not parse
FetchParseFailure(resp) ==
    /\ pc = "fetch"
    /\ page <= LastPage
    /\ ~resp.ok
    /\ responses' = Append(responses, [page |-> page, ok |-> FALSE, body |-> << >>])
    /\ out' = Append(out, [kind |-> "error_parse", n |-> 0, keys |-> {}])
    /\ top_tokens' = ReturnOnParseFailure(tokens)
    /\ pc' = "fetched"
    /\ UNCHANGED <<market_cap_min, market_cap_max, volume_min, page, tokens, i, results,
                   exc, df, df_sorted, df_sorted_7d, df_sorted_mc_vol,
                   tokens_in_all_plots, tokens_in_two_plots>>

\* get_top_tokens, line 36, reached when range(1, 5) is exhausted
ReturnTokens ==
    /\ pc = "fetch"
    /\ page > LastPage
    /\ top_tokens' = tokens
    /\ pc' = "fetched"
    /\ UNCHANGED <<market_cap_min, market_cap_max, volume_min, page, responses, tokens, i,
                   results, exc, df, df_sorted, df_sorted_7d, df_sorted_mc_vol,
                   tokens_in_all_plots, tokens_in_two_plots, out>>

(***************************************************************************)
(* calculate_potential_gains and the loop of main().                       *)
(***************************************************************************)
\* lines 39-42, for numbers
calculate_potential_gains(current_price, ath_price) ==
    IF current_price > 0 THEN TrueDiv(ath_price, current_price) ELSE FracOfInt(0)

\* line 75, for numbers
McVolRatio(market_cap, volume) ==
    IF volume > 0 THEN TrueDiv(market_cap, volume) ELSE FracOfInt(0)

\* variant, for mutation analysis: the bounds are not strict
PassesFilterAtBounds(market_cap, volume, potential_gains) ==
    /\ market_cap_min <= market_cap
    /\ market_cap <= market_cap_max
    /\ volume >= volume_min
    /\ ~FracLess(potential_gains, FracOfInt(1))

\* the condition of line 81
PassesFilter(market_cap, volume, potential_gains) ==
    /\ market_cap_min < market_cap
    /\ market_cap < market_cap_max
    /\ volume > volume_min
    /\ FracLess(FracOfInt(1), potential_gains)

\* the keys read by lines 68-74, in the order they are read
RequiredKeys == <<"name", "symbol", "current_price", "ath", "total_volume", "market_cap",
                  "price_change_percentage_7d_in_currency">>

\* lines 75-81 compare or divide a None: TypeError
RaisesTypeError(d) ==
    LET volume == d.total_volume
        market_cap == d.market_cap
        current_price == d.current_price
    IN  \/ volume = None                                                 \* line 75
        \/ Val(volume) > 0 /\ market_cap = None                          \* line 75
        \/ current_price = None                                          \* line 40
        \/ Val(current_price) > 0 /\ d.ath = None                        \* line 41
        \/ market_cap = None                                             \* line 81

\* the dict appended by lines 82-92
ResultRow(d) ==
    [TokenName |-> d.name,
     Symbol |-> Upper(Val(d.symbol)),
     CurrentPrice |-> Val(d.current_price),
     ATH |-> Val(d.ath),
     PotentialGains |-> calculate_potential_gains(Val(d.current_price), Val(d.ath)),
     MarketCap |-> Val(d.market_cap),
     Volume |-> Val(d.total_volume),
     PriceChange7D |-> d.price_change_percentage_7d_in_currency,
     MCVolumeRatio |-> McVolRatio(Val(d.market_cap), Val(d.total_volume))]

\* one pass of the loop body, lines 68-92: the exception it raises ("" when none)
\* and the rows it appends
LoopBody(token) ==
    LET d == token.d IN
    IF \E k \in 1..Len(RequiredKeys) : RequiredKeys[k] \notin DOMAIN d
    THEN [exc |-> "KeyError", rows |-> << >>]
    ELSE IF RaisesTypeError(d)
    THEN [exc |-> "TypeError", rows |-> << >>]
    ELSE IF ~PassesFilter(Val(d.market_cap), Val(d.total_volume),
                          IF Val(d.current_price) > 0 /\ d.ath # None
                          THEN calculate_potential_gains(Val(d.current_price), Val(d.ath))
                          ELSE FracOfInt(0))
    THEN [exc |-> "", rows |-> << >>]
    ELSE IF d.symbol = None
    THEN [exc |-> "AttributeError", rows |-> << >>]                      \* line 84
    ELSE [exc |-> "", rows |-> <<ResultRow(d)>>]

\* line 61 and line 64: the loop starts; the frame of get_top_tokens is gone
StartLoop ==
    /\ pc = "fetched"
    /\ out' = Append(out, [kind |-> "fetched", n |-> Len(top_tokens), keys |-> {}])
    /\ results' = << >>
    /\ i' = 1
    /\ page' = 0
    /\ responses' = << >>
    /\ tokens' = << >>
    /\ pc' = "loop"
    /\ UNCHANGED <<market_cap_min, market_cap_max, volume_min, top_tokens, exc, df,
                   df_sorted, df_sorted_7d, df_sorted_mc_vol, tokens_in_all_plots,
                   tokens_in_two_plots>>

\* lines 67-92, one token
ProcessToken ==
    /\ pc = "loop"
    /\ i <= Len(top_tokens)
    /\ LET r == LoopBody(top_tokens[i]) IN
         IF r.exc # ""
         THEN /\ exc' = r.exc
              /\ pc' = "raised"
              /\ UNCHANGED <<i, results>>
         ELSE /\ results' = results \o r.rows
              /\ i' = i + 1
              /\ UNCHANGED <<exc, pc>>
    /\ UNCHANGED <<market_cap_min, market_cap_max, volume_min, page, responses, tokens,
                   top_tokens, df, df_sorted, df_sorted_7d, df_sorted_mc_vol,
                   tokens_in_all_plots, tokens_in_two_plots, out>>

(***************************************************************************)
(* The table, the three rankings and the consensus sets.                   *)
(***************************************************************************)
\* a local name that is not bound yet is {}, one bound to v is {v}
Unbound == {}
Bound(v) == {v}

\* line 102: "<name> (<SYMBOL>)"; a null name makes the sum a missing value
DisplayKey(row) ==
    IF row.TokenName = None THEN None
    ELSE Some(Val(row.TokenName) \o <<" ", "(">> \o row.Symbol \o <<")">>)

\* lines 95 and 102: the rows in order under the index 0..n-1, with the Token column
DataFrame(rows) ==
    [k \in 1..Len(rows) |-> rows[k] @@ [index |-> k - 1, Token |-> DisplayKey(rows[k])]]

\* the sort columns as numbers; a null 7-day change is a missing value
GainsColumn(frame) == [k \in 1..Len(frame) |-> Some(frame[k].PotentialGains)]
PriceChangeColumn(frame) ==
    [k \in 1..Len(frame) |->
        IF frame[k].PriceChange7D = None THEN None
        ELSE Some(FracOfInt(Val(frame[k].PriceChange7D)))]
McVolColumn(frame) == [k \in 1..Len(frame) |-> Some(frame[k].MCVolumeRatio)]

\* the orders in which a sort may leave rows of equal value (the default sort of
\* sort_values is not a stable one): a priority among the rows.  Every priority
\* for a table of up to PermRows rows; for a longer table the original order and
\* its reverse
TieBreaks(n) ==
    IF n <= PermRows
    THEN {f \in [1..n -> 1..n] : \A a, b \in 1..n : f[a] = f[b] => a = b}
    ELSE {[k \in 1..n |-> k], [k \in 1..n |-> n + 1 - k]}

\* DataFrame.sort_values(by=column, ascending=...): the rows with a value in order
\* of the value, rows of equal value in the order tb, then the rows whose value is
\* missing, in their original order
sort_values(frame, column, ascending, tb) ==
    LET n == Len(frame)
        Before(p, q) ==
            \/ IF ascending THEN FracLess(Val(column[p]), Val(column[q]))
                            ELSE FracLess(Val(column[q]), Val(column[p]))
            \/ column[p] = column[q] /\ tb[p] < tb[q]
        present == {p \in 1..n : column[p] # None}
        rank == [p \in 1..n |->
                   IF p \in present
                   THEN Cardinality({q \in present : Before(q, p)})
                   ELSE Cardinality(present)
                        + Cardinality({q \in 1..n : q \notin present /\ q < p})]
        indexer == [k \in 1..n |-> CHOOSE p \in 1..n : rank[p] = k - 1]
    IN  [k \in 1..n |-> frame[indexer[k]]]

\* variant, for mutation analysis: one row too many
headOneMore(frame, k) == SubSeq(frame, 1, Min(k + 1, Len(frame)))

\* DataFrame.head(k)
head(frame, k) == SubSeq(frame, 1, Min(k, Len(frame)))

\* line 107: the column through min(x, 1000)
CapGains(frame) ==
    [k \in 1..Len(frame) |->
        [frame[k] EXCEPT !.PotentialGains = FracMin(@, GainCap)]]

\* variant, for mutation analysis: the cap is applied before the sort
RankedByGainsCapFirst(frame, tb) ==
    head(sort_values(CapGains(frame), GainsColumn(CapGains(frame)), FALSE, tb), TopK)

\* lines 106-107
RankedByGains(frame, tb) ==
    CapGains(head(sort_values(frame, GainsColumn(frame), FALSE, tb), TopK))

\* variant, for mutation analysis: rows without a 7-day change are dropped before the sort
DropMissingChange(frame) == SelectSeq(frame, LAMBDA row : row.PriceChange7D # None)
RankedByPriceChangeDropNa(frame, tb) ==
    head(sort_values(DropMissingChange(frame), PriceChangeColumn(DropMissingChange(frame)),
                     FALSE, tb), TopK)

\* line 119
RankedByPriceChange(frame, tb) ==
    head(sort_values(frame, PriceChangeColumn(frame), FALSE, tb), TopK)

\* line 131
RankedByMcVol(frame, tb) ==
    head(sort_values(frame, McVolColumn(frame), TRUE, tb), TopK)

\* set(frame["Token"])
TokenSet(frame) == {frame[k].Token : k \in 1..Len(frame)}

\* line 142
InAllPlots(a, b, c) == a \cap b \cap c

\* variant, for mutation analysis: the keys in all three are not removed
InTwoPlotsKeepAll(a, b, c, all) == ((a \cap b) \cup (b \cap c)) \cup (c \cap a)

\* lines 152-156
InTwoPlots(a, b, c, all) == (((a \cap b) \cup (b \cap c)) \cup (c \cap a)) \ all

Msg(kind, n, keys) == [kind |-> kind, n |-> n, keys |-> keys]

\* variant, for mutation analysis: the table is ranked without the test of line 101
BuildFrameNoEmptyTest ==
    /\ pc = "loop"
    /\ i > Len(top_tokens)
    /\ df' = DataFrame(results)
    /\ out' = out \o <<Msg("after_filtering", Len(results), {}),
                        Msg("table", Len(results), {})>>
    /\ pc' = "rank_gains"
    /\ UNCHANGED <<market_cap_min, market_cap_max, volume_min, page, responses, tokens,
                   top_tokens, i, results, exc, df_sorted, df_sorted_7d, df_sorted_mc_vol,
                   tokens_in_all_plots, tokens_in_two_plots>>

\* lines 95-103 and 165-166: the table, and the no-match outcome when it is empty
BuildFrame ==
    /\ pc = "loop"
    /\ i > Len(top_tokens)
    /\ df' = DataFrame(results)
    /\ IF results = << >>
       THEN /\ out' = out \o <<Msg("after_filtering", 0, {}), Msg("no_match", 0, {})>>
            /\ pc' = "done"
       ELSE /\ out' = out \o <<Msg("after_filtering", Len(results), {}),
                               Msg("table", Len(results), {})>>
            /\ pc' = "rank_gains"
    /\ UNCHANGED <<market_cap_min, market_cap_max, volume_min, page, responses, tokens,
                   top_tokens, i, results, exc, df_sorted, df_sorted_7d, df_sorted_mc_vol,
                   tokens_in_all_plots, tokens_in_two_plots>>

\* lines 105-116
RankGains(tb) ==
    /\ pc = "rank_gains"
    /\ df_sorted' = RankedByGains(df, tb)
    /\ out' = Append(out, Msg("top_gains", 0, {}))
    /\ pc' = "rank_7d"
    /\ UNCHANGED <<market_cap_min, market_cap_max, volume_min, page, responses, tokens,
                   top_tokens, i, results, exc, df, df_sorted_7d, df_sorted_mc_vol,
                   tokens_in_all_plots, tokens_in_two_plots>>

\* lines 118-128
RankPriceChange(tb) ==
    /\ pc = "rank_7d"
    /\ df_sorted_7d' = RankedByPriceChange(df, tb)
    /\ out' = Append(out, Msg("top_7d", 0, {}))
    /\ pc' = "rank_mc_vol"
    /\ UNCHANGED <<market_cap_min, market_cap_max, volume_min, page, responses, tokens,
                   top_tokens, i, results, exc, df, df_sorted, df_sorted_mc_vol,
                   tokens_in_all_plots, tokens_in_two_plots>>

\* lines 130-139
RankMcVol(tb) ==
    /\ pc = "rank_mc_vol"
    /\ df_sorted_mc_vol' = RankedByMcVol(df, tb)
    /\ out' = Append(out, Msg("top_mc_vol", 0, {}))
    /\ pc' = "all_plots"
    /\ UNCHANGED <<market_cap_min, market_cap_max, volume_min, page, responses, tokens,
                   top_tokens, i, results, exc, df, df_sorted, df_sorted_7d,
                   tokens_in_all_plots, tokens_in_two_plots>>

\* lines 141-149
ConsensusAll ==
    /\ pc = "all_plots"
    /\ LET all == InAllPlots(TokenSet(df_sorted), TokenSet(df_sorted_7d),
                             TokenSet(df_sorted_mc_vol)) IN
         /\ tokens_in_all_plots' = Bound(all)
         /\ out' = Append(out, IF all # {} THEN Msg("all_three", 0, all)
                                           ELSE Msg("none_in_all_three", 0, {}))
    /\ pc' = "two_plots"
    /\ UNCHANGED <<market_cap_min, market_cap_max, volume_min, page, responses, tokens,
                   top_tokens, i, results, exc, df, df_sorted, df_sorted_7d,
                   df_sorted_mc_vol, tokens_in_two_plots>>

\* lines 151-163
ConsensusTwo ==
    /\ pc = "two_plots"
    /\ LET two == InTwoPlots(TokenSet(df_sorted), TokenSet(df_sorted_7d),
                             TokenSet(df_sorted_mc_vol), Val(tokens_in_all_plots)) IN
         /\ tokens_in_two_plots' = Bound(two)
         /\ out' = Append(out, IF two # {} THEN Msg("two", 0, two)
                                           ELSE Msg("none_in_two", 0, {}))
    /\ pc' = "done"
    /\ UNCHANGED <<market_cap_min, market_cap_max, volume_min, page, responses, tokens,
                   top_tokens, i, results, exc, df, df_sorted, df_sorted_7d,
                   df_sorted_mc_vol, tokens_in_all_plots>>

(***************************************************************************)
(* Inputs: slider positions, raw entries of a response, generated lists.   *)
(***************************************************************************)
MarketCapMinValues == {100000, 100000000}
MarketCapMaxValues == {500000000, 1000000000}
VolumeMinValues == {100000, 1000000}

Entry(name, symbol, price, ath, volume, cap, change) ==
    [isdict |-> TRUE,
     d |-> [name |-> Some(name), symbol |-> Some(symbol), current_price |-> price,
            ath |-> Some(ath), total_volume |-> Some(volume), market_cap |-> Some(cap),
            price_change_percentage_7d_in_currency |-> change]]

Without(entry, key) ==
    [isdict |-> TRUE, d |-> [k \in (DOMAIN entry.d) \ {key} |-> entry.d[k]]]

NotADict == [isdict |-> FALSE, d |-> [text |-> Some(<<"e", "r", "r">>)]]

Btc == Entry(<<"A">>, <<"b","t","c">>, Some(2), 10, 5000000, 500000000, Some(3))
Ckb == Entry(<<"C">>, <<"c","k","b">>, Some(2), 10, 1000000, 100000000, Some(5))
Eth == Entry(<<"B">>, <<"e","t","h">>, Some(2), 6, 5000000, 400000000, None)
Tether(symbol) == Entry(<<"T">>, symbol, Some(2), 10, 5000000, 400000000, Some(0))
Usdtx == Entry(<<"X">>, <<"u","s","d","t","x">>, Some(2), 5000, 5000000, 400000000, Some(-4))

\* the entries a response may hold.  Btc sits on one of the market_cap_max values,
\* Ckb on one of the market_cap_min and one of the volume_min values; H has a gain
\* of exactly 1 and K a price of 0; T comes in three spellings of "usdt"; the others
\* are not a dict, lack a key, or hold a null
Pool ==
    { NotADict,
      Without(Btc, "symbol"),
      Without(Btc, "name"),
      Btc,
      Ckb,
      Eth,
      Tether(<<"u","s","d","t">>),
      Tether(<<"U","S","D","T">>),
      Tether(<<"U","s","d","t">>),
      Usdtx,
      Entry(<<"E">>, <<"e","t","h">>, None, 10, 5000000, 400000000, Some(1)),
      Entry(<<"D">>, <<"d","a","i">>, Some(2), 10, 5000000, 400000000, Some(5)),
      Entry(<<"H">>, <<"h","t">>, Some(2), 2, 5000000, 400000000, Some(5)),
      Entry(<<"K">>, <<"k","s">>, Some(0), 10, 5000000, 400000000, Some(5)) }

SeqsUpTo(S, n) == UNION {[1..k -> S] : k \in 0..n}

RECURSIVE Received(_)
Received(resps) ==
    IF resps = << >> THEN 0 ELSE Len(resps[1].body) + Received(Tail(resps))

Responses(budget) ==
    {[ok |-> FALSE, body |-> << >>]}
        \cup {[ok |-> TRUE, body |-> b] : b \in SeqsUpTo(Pool, budget)}

\* generated token lists: n well-formed tokens whose three metrics rise, fall,
\* stay flat or alternate along the list
Digit == <<"0", "1", "2", "3", "4", "5", "6", "7", "8", "9">>
GenName(k) == <<"T", Digit[(k \div 10) + 1], Digit[(k % 10) + 1]>>

GenAth(shape, k, n) ==
    CASE shape = "up" -> 2 + 40 * k
      [] shape = "down" -> 2 + 40 * (n + 1 - k)
      [] shape = "flat" -> 5
      [] OTHER -> 2 + ((7 * k) % 5) * 600

GenChange(shape, k, n) ==
    CASE shape = "up" -> k - 5
      [] shape = "down" -> 20 - k
      [] shape = "flat" -> 0
      [] OTHER -> ((3 * k) % 7) - 3

GenCap(shape, k, n) ==
    CASE shape = "up" -> (100 + k) * 1000000
      [] shape = "down" -> (200 - k) * 1000000
      [] shape = "flat" -> 150000000
      [] OTHER -> (101 + ((5 * k) % 6)) * 1000000

Patterns ==
    { [g |-> "up", c |-> "up", r |-> "up", nan |-> FALSE, dup |-> FALSE],
      [g |-> "up", c |-> "down", r |-> "up", nan |-> FALSE, dup |-> FALSE],
      [g |-> "flat", c |-> "flat", r |-> "flat", nan |-> FALSE, dup |-> FALSE],
      [g |-> "mix", c |-> "mix", r |-> "mix", nan |-> TRUE, dup |-> FALSE],
      [g |-> "up", c |-> "up", r |-> "down", nan |-> TRUE, dup |-> TRUE],
      [g |-> "down", c |-> "flat", r |-> "mix", nan |-> TRUE, dup |-> FALSE] }

GenTokens(n, pat) ==
    [k \in 1..n |->
        Entry(IF pat.dup /\ k = n /\ n > 1 THEN GenName(1) ELSE GenName(k),
              <<"t", "k">>, Some(1), GenAth(pat.g, k, n), 2000000, GenCap(pat.r, k, n),
              IF pat.nan /\ k % 4 = 0 THEN None ELSE Some(GenChange(pat.c, k, n)))]

(***************************************************************************)
(* The run behind the button, from the sliders to the last message.        *)
(***************************************************************************)
Init ==
    /\ market_cap_min \in MarketCapMinValues
    /\ market_cap_max \in MarketCapMaxValues
    /\ volume_min \in VolumeMinValues
    /\ pc = "button"
    /\ page = 0
    /\ responses = << >>
    /\ tokens = << >>
    /\ top_tokens = << >>
    /\ i = 0
    /\ results = << >>
    /\ exc = ""
    /\ df = << >>
    /\ df_sorted = << >>
    /\ df_sorted_7d = << >>
    /\ df_sorted_mc_vol = << >>
    /\ tokens_in_all_plots = Unbound
    /\ tokens_in_two_plots = Unbound
    /\ out = << >>

\* lines 55-58 and 8-9: the button is pressed and get_top_tokens starts
ShowResults ==
    /\ pc = "button"
    /\ pc' = "fetch"
    /\ tokens' = << >>
    /\ page' = FirstPage
    /\ UNCHANGED <<market_cap_min, market_cap_max, volume_min, responses, top_tokens, i,
                   results, exc, df, df_sorted, df_sorted_7d, df_sorted_mc_vol,
                   tokens_in_all_plots, tokens_in_two_plots, out>>

Next ==
    \/ ShowResults
    \/ /\ pc = "fetch"
       /\ \E resp \in Responses(MaxEntries - Received(responses)) : FetchPage(resp)
    \/ /\ pc = "fetch"
       /\ \E resp \in Responses(0) : FetchParseFailure(resp)
    \/ ReturnTokens
    \/ StartLoop
    \/ ProcessToken
    \/ BuildFrame
    \/ /\ pc = "rank_gains"
       /\ \E tb \in TieBreaks(Len(df)) : RankGains(tb)
    \/ /\ pc = "rank_7d"
       /\ \E tb \in TieBreaks(Len(df)) : RankPriceChange(tb)
    \/ /\ pc = "rank_mc_vol"
       /\ \E tb \in TieBreaks(Len(df)) : RankMcVol(tb)
    \/ ConsensusAll
    \/ ConsensusTwo

Spec == Init /\ [][Next]_vars

(***************************************************************************)
(* The same run from the start of the loop of line 67, on a generated list *)
(* that get_top_tokens returned: long enough for the rankings to cut.      *)
(***************************************************************************)
InitRank ==
    /\ market_cap_min = 100000000
    /\ market_cap_max = 1000000000
    /\ volume_min = 1000000
    /\ pc = "loop"
    /\ page = 0
    /\ responses = << >>
    /\ tokens = << >>
    /\ \E n \in 0..MaxRows : \E pat \in Patterns : top_tokens = GenTokens(n, pat)
    /\ i = 1
    /\ results = << >>
    /\ exc = ""
    /\ df = << >>
    /\ df_sorted = << >>
    /\ df_sorted_7d = << >>
    /\ df_sorted_mc_vol = << >>
    /\ tokens_in_all_plots = Unbound
    /\ tokens_in_two_plots = Unbound
    /\ out = <<Msg("fetched", Len(top_tokens), {})>>

NextRank ==
    \/ ProcessToken
    \/ BuildFrame
    \/ /\ pc = "rank_gains"
       /\ \E tb \in TieBreaks(Len(df)) : RankGains(tb)
    \/ /\ pc = "rank_7d"
       /\ \E tb \in TieBreaks(Len(df)) : RankPriceChange(tb)
    \/ /\ pc = "rank_mc_vol"
       /\ \E tb \in TieBreaks(Len(df)) : RankMcVol(tb)
    \/ ConsensusAll
    \/ ConsensusTwo

SpecRank == InitRank /\ [][NextRank]_vars

(***************************************************************************)
(* Properties.                                                             *)
(***************************************************************************)
\* the tokens the loop of line 67 has passed, as positions in top_tokens
Processed == 1..(i - 1)

\* a raw record read as the claims read it: all numbers present, and the three
\* conditions stated on them (a gain above 1 is an ATH above a positive price)
HasNumbers(d) ==
    /\ {"current_price", "ath", "total_volume", "market_cap"} \subseteq DOMAIN d
    /\ d.current_price # None /\ d.ath # None
    /\ d.total_volume # None /\ d.market_cap # None

MeetsThresholds(d) ==
    /\ HasNumbers(d)
    /\ market_cap_min < Val(d.market_cap)
    /\ Val(d.market_cap) < market_cap_max
    /\ Val(d.total_volume) > volume_min
    /\ Val(d.current_price) > 0
    /\ Val(d.ath) > Val(d.current_price)

\* the positions in 1..n of top_tokens whose record meets the thresholds, in order
RECURSIVE MeetingPositions(_)
MeetingPositions(n) ==
    IF n = 0 THEN << >>
    ELSE IF MeetsThresholds(top_tokens[n].d)
         THEN Append(MeetingPositions(n - 1), n)
         ELSE MeetingPositions(n - 1)

\* C1: the rows appended to results are exactly the records passed so far that
\* meet market_cap_min < market_cap < market_cap_max, volume > volume_min and
\* potential gain > 1, all strict, in order: a record at a bound, or with a gain
\* of exactly 1, is not among them.
C1_FilterIsStrictAndExact ==
    LET kept == MeetingPositions(IF i = 0 THEN 0 ELSE i - 1) IN
    /\ Len(results) = Len(kept)
    /\ \A j \in 1..Len(results) :
         LET d == top_tokens[kept[j]].d
             row == results[j] IN
         /\ row.TokenName = d.name
         /\ row.MarketCap = Val(d.market_cap)
         /\ row.Volume = Val(d.total_volume)
         /\ row.CurrentPrice = Val(d.current_price)
         /\ row.ATH = Val(d.ath)
    /\ \A j \in 1..Len(results) :
         /\ market_cap_min < results[j].MarketCap
         /\ results[j].MarketCap < market_cap_max
         /\ results[j].Volume > volume_min
         /\ FracLess(FracOfInt(1), results[j].PotentialGains)

\* C1 witness: the loop has passed a record that sits on the market-cap and volume
\* bounds and one that is appended
C1_Witness ==
    /\ pc = "loop"
    /\ i = 3
    /\ top_tokens = <<Ckb, Usdtx>>
    /\ market_cap_min = 100000000
    /\ Len(results) = 1

\* str.lower() on the characters the model uses
LowerChar(c) ==
    CASE c = "A" -> "a" [] c = "B" -> "b" [] c = "C" -> "c" [] c = "D" -> "d"
      [] c = "E" -> "e" [] c = "H" -> "h" [] c = "I" -> "i" [] c = "K" -> "k"
      [] c = "S" -> "s" [] c = "T" -> "t" [] c = "U" -> "u" [] c = "X" -> "x"
      [] OTHER -> c
Lower(s) == [k \in 1..Len(s) |-> LowerChar(s[k])]

IsStablecoinSpelling(token) ==
    /\ token.isdict
    /\ "symbol" \in DOMAIN token.d
    /\ token.d.symbol # None
    /\ InList(Lower(Val(token.d.symbol)), stablecoins)

\* every entry of the responses received so far
ReceivedEntries ==
    UNION {{responses[k].body[j] : j \in 1..Len(responses[k].body)} :
              k \in 1..Len(responses)}

\* C2: no record whose symbol is a stablecoin symbol in any spelling of case is in
\* the token list of get_top_tokens, and a record with symbol "usdtx" received in a
\* response is in the list.
C2_StablecoinsExcludedInAnyCase ==
    /\ \A k \in 1..Len(tokens) : ~IsStablecoinSpelling(tokens[k])
    /\ \A k \in 1..Len(top_tokens) : ~IsStablecoinSpelling(top_tokens[k])
    /\ pc = "fetch" =>
         \A e \in ReceivedEntries : e = Usdtx => InList(e, tokens)

\* C3: the run never raises, and no row of results comes from a record with a
\* missing or null field.
C3_MalformedRecordsAreDropped ==
    /\ exc = ""
    /\ pc # "raised"
    /\ \A j \in 1..Len(results) :
         results[j].TokenName # None /\ results[j].PriceChange7D # None

\* positions in main() after the ranking by gains, and after all three rankings
AfterGains == {"rank_7d", "rank_mc_vol", "all_plots", "two_plots", "done"}
AfterRankings == {"all_plots", "two_plots", "done"}

\* the rows of df (as positions) that a ranking holds, through its index
Kept(frame) == {frame[k].index + 1 : k \in 1..Len(frame)}
LeftOut(frame) == (1..Len(df)) \ Kept(frame)

\* a ranking holds min(n, 30) different rows of df
HoldsTopRows(frame) ==
    /\ Len(frame) = (IF Len(df) > TopK THEN TopK ELSE Len(df))
    /\ Kept(frame) \subseteq 1..Len(df)
    /\ Cardinality(Kept(frame)) = Len(frame)

\* a 7-day change is greater than another: both are present and it is the larger
GreaterChange(x, y) == x # None /\ y # None /\ Val(x) > Val(y)

\* C4: each ranking holds exactly min(n, 30) rows of the table of n rows, and no
\* row left out is better on the ranking's metric than a row kept: not a greater
\* gain, not a greater 7-day change, not a smaller MC/volume ratio.
C4_RankingsHoldTheBestThirty ==
    /\ (pc \in AfterGains /\ df # << >>) =>
         /\ HoldsTopRows(df_sorted)
         /\ \A x \in LeftOut(df_sorted), y \in Kept(df_sorted) :
              ~FracLess(df[y].PotentialGains, df[x].PotentialGains)
    /\ (pc \in AfterRankings /\ df # << >>) =>
         /\ HoldsTopRows(df_sorted_7d)
         /\ \A x \in LeftOut(df_sorted_7d), y \in Kept(df_sorted_7d) :
              ~GreaterChange(df[x].PriceChange7D, df[y].PriceChange7D)
         /\ HoldsTopRows(df_sorted_mc_vol)
         /\ \A x \in LeftOut(df_sorted_mc_vol), y \in Kept(df_sorted_mc_vol) :
              ~FracLess(df[x].MCVolumeRatio, df[y].MCVolumeRatio)

\* C4 witness: a table of more than 30 rows has been ranked three times
C4_Witness ==
    /\ pc = "done"
    /\ Len(df) > TopK
    /\ Len(df_sorted) = TopK /\ Len(df_sorted_7d) = TopK /\ Len(df_sorted_mc_vol) = TopK
    /\ LeftOut(df_sorted) # LeftOut(df_sorted_mc_vol)

\* in how many of the three key sets a key is
PlotCount(key) ==
    (IF key \in TokenSet(df_sorted) THEN 1 ELSE 0)
    + (IF key \in TokenSet(df_sorted_7d) THEN 1 ELSE 0)
    + (IF key \in TokenSet(df_sorted_mc_vol) THEN 1 ELSE 0)

\* C5: the two consensus sets are disjoint; a key is in tokens_in_two_plots
\* exactly when it is in exactly two of the three top-30 key sets, and in
\* tokens_in_all_plots exactly when it is in all three.
C5_ConsensusSetsPartition ==
    (pc = "done" /\ df # << >>) =>
        LET all == Val(tokens_in_all_plots)
            two == Val(tokens_in_two_plots)
            keys == TokenSet(df) \cup all \cup two IN
        /\ tokens_in_all_plots # Unbound /\ tokens_in_two_plots # Unbound
        /\ all \cap two = {}
        /\ \A key \in keys :
             /\ key \in two <=> PlotCount(key) = 2
             /\ key \in all <=> PlotCount(key) = 3

\* C5 witness: a run that ends with keys in all three plots, keys in exactly two
\* and keys in one only
C5_Witness ==
    /\ pc = "done"
    /\ tokens_in_all_plots # Unbound /\ tokens_in_two_plots # Unbound
    /\ Val(tokens_in_all_plots) # {}
    /\ Val(tokens_in_two_plots) # {}
    /\ \E key \in TokenSet(df) : PlotCount(key) = 1

\* C6: no row whose 7-day change is missing is in the ranking by 7-day change,
\* while it is ranked by gains and by MC/volume like any other row.
C6_MissingChangeIsNotRanked ==
    /\ \A k \in 1..Len(df_sorted_7d) : df_sorted_7d[k].PriceChange7D # None
    /\ (pc \in AfterRankings /\ Len(df) <= TopK) =>
         /\ Kept(df_sorted) = 1..Len(df)
         /\ Kept(df_sorted_mc_vol) = 1..Len(df)

\* the value the chart shows for a gain
Displayed(gains) == IF FracLess(<<1000, 1>>, gains) THEN <<1000, 1>> ELSE gains

\* C7: the cap changes the displayed gains only.  The ranking by gains holds the
\* rows, in the order, of a ranking by the gains before the cap; the table the
\* other rankings read keeps its gains; the consensus sets are those of the keys
\* ranked by the gains before the cap.
C7_CapIsCosmetic ==
    /\ pc \in ({"rank_gains"} \cup AfterGains) =>
         /\ Len(df) = Len(results)
         /\ \A k \in 1..Len(df) : df[k].PotentialGains = results[k].PotentialGains
    /\ (pc \in AfterGains /\ df # << >>) =>
         /\ HoldsTopRows(df_sorted)
         /\ \A j, k \in 1..Len(df_sorted) :
              j < k => ~FracLess(df[df_sorted[j].index + 1].PotentialGains,
                                 df[df_sorted[k].index + 1].PotentialGains)
         /\ \A x \in LeftOut(df_sorted), y \in Kept(df_sorted) :
              ~FracLess(df[y].PotentialGains, df[x].PotentialGains)
         /\ \A k \in 1..Len(df_sorted) :
              LET row == df[df_sorted[k].index + 1] IN
              /\ df_sorted[k].Token = row.Token
              /\ df_sorted[k].PotentialGains = Displayed(row.PotentialGains)
    /\ (pc = "done" /\ df # << >>) =>
         LET a == {df[p].Token : p \in Kept(df_sorted)}
             b == TokenSet(df_sorted_7d)
             c == TokenSet(df_sorted_mc_vol) IN
         /\ tokens_in_all_plots = Bound((a \cap b) \cap c)
         /\ tokens_in_two_plots
              = Bound(((a \cap b) \cup (b \cap c) \cup (c \cap a)) \ ((a \cap b) \cap c))

\* C7 witness: a table of more than 30 rows is ranked, and a kept row whose gain
\* is above 1000 is shown as 1000
C7_Witness ==
    /\ pc = "done"
    /\ Len(df) > TopK
    /\ \E k \in 1..Len(df_sorted) :
         /\ df_sorted[k].PotentialGains = <<1000, 1>>
         /\ FracLess(<<1000, 1>>, df[df_sorted[k].index + 1].PotentialGains)

\* the messages that report an outcome, in the order written
IsOutcome(m) ==
    m.kind \in {"no_match", "all_three", "none_in_all_three", "two", "none_in_two"}
Outcomes == SelectSeq(out, IsOutcome)

\* C8: when no record survives the filter the run ends with the no-match message
\* as its only outcome and binds no ranking and no consensus set; when a record
\* survives it ends with one message per consensus set, the set or that set's own
\* "No tokens appeared in ..." message, and never writes the no-match message; and
\* no exception is raised once the loop of line 67 has ended.
C8_EmptyOutcomesAreReported ==
    /\ (pc = "done" /\ results = << >>) =>
         /\ Outcomes = <<Msg("no_match", 0, {})>>
         /\ df_sorted = << >> /\ df_sorted_7d = << >> /\ df_sorted_mc_vol = << >>
         /\ tokens_in_all_plots = Unbound /\ tokens_in_two_plots = Unbound
    /\ (pc = "done" /\ results # << >>) =>
         /\ tokens_in_all_plots # Unbound /\ tokens_in_two_plots # Unbound
         /\ Outcomes =
              << IF Val(tokens_in_all_plots) # {}
                 THEN Msg("all_three", 0, Val(tokens_in_all_plots))
                 ELSE Msg("none_in_all_three", 0, {}),
                 IF Val(tokens_in_two_plots) # {}
                 THEN Msg("two", 0, Val(tokens_in_two_plots))
                 ELSE Msg("none_in_two", 0, {}) >>
    /\ results # << >> => \A k \in 1..Len(out) : out[k].kind # "no_match"
    /\ pc \in ({"rank_gains", "done"} \cup AfterGains) => exc = ""
    /\ pc = "raised" => (i <= Len(top_tokens) /\ Outcomes = << >>)

\* C8 witness: tokens were fetched, none survived, and the run has ended
C8_Witness ==
    /\ pc = "done"
    /\ top_tokens # << >>
    /\ results = << >>
    /\ Outcomes = <<Msg("no_match", 0, {})>>

\* C9: a table of 1 to 30 rows puts every display key in all three top-30 key
\* sets: tokens_in_all_plots is the set of all keys of the table and
\* tokens_in_two_plots is empty.
C9_SmallTableIsAllThree ==
    (pc = "done" /\ Len(df) >= 1 /\ Len(df) <= TopK) =>
        /\ TokenSet(df_sorted) = TokenSet(df)
        /\ TokenSet(df_sorted_7d) = TokenSet(df)
        /\ TokenSet(df_sorted_mc_vol) = TokenSet(df)
        /\ tokens_in_all_plots = Bound(TokenSet(df))
        /\ tokens_in_two_plots = Bound({})

\* C9 witness: a run ends on a table of one row, its key the only key in all
\* three plots
C9_Witness ==
    /\ pc = "done"
    /\ Len(df) = 1
    /\ tokens_in_all_plots = Bound({df[1].Token})
    /\ tokens_in_two_plots = Bound({})

\* an entry passes the symbol filter: a dict with a symbol that is none of the
\* five listed strings
PassesSymbolFilter(e) ==
    /\ e.isdict
    /\ "symbol" \in DOMAIN e.d
    /\ e.d.symbol \notin {Some(<<"u","s","d","t">>), Some(<<"u","s","d","c">>),
                          Some(<<"d","a","i">>), Some(<<"b","u","s","d">>),
                          Some(<<"u","s","t">>)}

RECURSIVE ConcatPassing(_)
ConcatPassing(resps) ==
    IF resps = << >> THEN << >>
    ELSE SelectSeq(resps[1].body, PassesSymbolFilter) \o ConcatPassing(Tail(resps))

\* C10: get_top_tokens requests pages 1 to 4 in order; after a response that does
\* not parse it requests nothing more and returns the empty list; otherwise it
\* returns the entries that pass the symbol filter, page after page, duplicates
\* kept.
C10_PagesInOrderAllOrNothing ==
    /\ \A k \in 1..Len(responses) :
         /\ responses[k].page = FirstPage + (k - 1)
         /\ responses[k].page <= LastPage
         /\ k < Len(responses) => responses[k].ok
    /\ pc = "fetch" => \A k \in 1..Len(responses) : responses[k].ok
    /\ pc = "fetched" =>
         IF \E k \in 1..Len(responses) : ~responses[k].ok
         THEN top_tokens = << >>
         ELSE /\ Len(responses) = LastPage - FirstPage + 1
              /\ top_tokens = ConcatPassing(responses)

\* C10 witness: the second page does not parse after the first gave a token
C10_Witness ==
    /\ pc = "fetched"
    /\ Len(responses) = 2
    /\ responses[1].body = <<Btc>>
    /\ ~responses[2].ok
    /\ top_tokens = << >>

====
